---- MODULE Spec2Model ----
(***************************************************************************)
(* Role-gated retrieval assistant (Bharath8080/RBAC_RAG_V4).               *)
(*                                                                         *)
(* The model covers the credential store (database.py: add_user,           *)
(* verify_user, initialize_users over the MongoDB "users" collection), the *)
(* Streamlit application (app.py: login, logout, load_vector_index behind  *)
(* st.cache_resource, chat_interface) and the ingestion script (ingest.py).*)
(*                                                                         *)
(* Python None is NoneS for string-valued fields and the empty tuple for   *)
(* everything else (Some(x) is <<x>>).  Passwords are byte sequences, as   *)
(* bcrypt sees them after .encode('utf-8').                                *)
(***************************************************************************)
EXTENDS Integers, Sequences, FiniteSets, TLC

\* ------------------------------------------------------------------ bounds
MaxTime == 1
MaxDocs == 8
MaxQueries == 2

\* ---------------------------------------------------------------- literals
NoneS == "<None>"
None == <<>>
Some(x) == <<x>>

Range(f) == {f[i] : i \in DOMAIN f}

\* bcrypt hashes at most this many bytes of a password.
BCRYPT_MAX_BYTES == 72

\* "x" * n
Pad(n) == [i \in 1..n |-> 120]

\* The passwords of default_users, as ASCII bytes.
PwTony == <<112, 97, 115, 115, 119, 111, 114, 100, 49, 50, 51>>
PwBruce == <<115, 101, 99, 117, 114, 101, 112, 97, 115, 115>>
PwSam == <<102, 105, 110, 97, 110, 99, 101, 112, 97, 115, 115>>
PwPeter == <<112, 101, 116, 101, 49, 50, 51>>
PwSid == <<115, 105, 100, 112, 97, 115, 115, 49, 50, 51>>
PwNatasha == <<104, 114, 112, 97, 115, 115, 49, 50, 51>>

\* Passwords of 73 bytes that agree on their first 72.
PwLongA == Pad(BCRYPT_MAX_BYTES) \o <<97>>
PwLongB == Pad(BCRYPT_MAX_BYTES) \o <<98>>
\* "wrong_password" of the integration test, abbreviated to "wrong".
PwWrong == <<119, 114, 111, 110, 103>>

default_users ==
  << [username |-> "Tony", password |-> PwTony, role |-> "engineering"],
     [username |-> "Bruce", password |-> PwBruce, role |-> "marketing"],
     [username |-> "Sam", password |-> PwSam, role |-> "finance"],
     [username |-> "Peter", password |-> PwPeter, role |-> "engineering"],
     [username |-> "Sid", password |-> PwSid, role |-> "marketing"],
     [username |-> "Natasha", password |-> PwNatasha, role |-> "hr"] >>

\* Role-based access control for documents.
ROLE_ACCESS_Widened ==
  [r \in {"hr", "engineering", "finance", "marketing"} |->
     IF r = "hr" THEN <<"hr", "finance", "general">> ELSE <<r, "general">>]

ROLE_ACCESS ==
  [r \in {"hr", "engineering", "finance", "marketing"} |-> <<r, "general">>]

\* str.lower() on the role strings the model provisions.
Lower(r) ==
  CASE r = "Finance" -> "finance"
    [] r = "HR" -> "hr"
    [] OTHER -> r

\* ------------------------------------------------------------------ inputs
TestUser == "test_user_123"
\* <<username, password, role>> given to add_user.
AddInputs ==
  { <<"", PwTony, "Finance">>, <<TestUser, <<>>, "Finance">>,
    <<TestUser, PwTony, "">>, <<TestUser, PwTony, "test_role">>,
    <<TestUser, PwLongA, "Finance">>, <<"Tony", PwLongA, "Finance">> }
\* <<username, password>> given to verify_user.
VerifyInputs ==
  { <<"Tony", PwTony>>, <<"Tony", PwWrong>>, <<"Tony", PwLongA>>,
    <<"Tony", PwLongB>>, <<TestUser, PwTony>>, <<TestUser, PwLongA>>,
    <<TestUser, PwLongB>>, <<"nobody", PwTony>> }

VARIABLES
  users,         \* the "users" collection: documents in insertion order
  plain,         \* per document, the plaintext it was provisioned with (history)
  now,           \* datetime.utcnow()
  bcryptStrict,  \* the installed bcrypt rejects passwords over 72 bytes (>= 5.0)
  lastCall,      \* the latest credential-store call and what it returned
  roleAccess,    \* the module-level ROLE_ACCESS dictionary
  cohereKey,     \* whether COHERE_API_KEY is set in the application's environment
  env,           \* which of MONGO_URI, DB_NAME, GROQ_API_KEY the environment sets
  collections,   \* the roles whose ./chroma_db/<role> holds a "documents" collection
  opened,        \* the roles whose ./chroma_db/<role> the loader has opened
  cache,         \* st.cache_resource's entries of load_vector_index, by key
  locks,         \* the keys whose compute lock is held
  built,         \* per key, how many indexes load_vector_index has constructed
  sess,          \* st.session_state of each session
  pc,            \* where each session's script run stands
  pending,       \* the chat input of the run in progress
  lastRun        \* what each session's latest script run did and showed

storeVars == <<users, plain, now, bcryptStrict, lastCall>>
appVars == <<roleAccess, cohereKey, env, collections, opened, cache, locks, built,
             sess, pc, pending, lastRun>>\* username given to get_user.
GetInputs == {"Tony", TestUser, "nobody"}

vars == <<storeVars, appVars>>

\* ------------------------------------------------------------------ bcrypt
\* hashpw and checkpw raise ValueError on an over-long password when strict.
HashRaises(password) == bcryptStrict /\ Len(password) > BCRYPT_MAX_BYTES

Truncate(password) ==
  IF Len(password) > BCRYPT_MAX_BYTES
    THEN SubSeq(password, 1, BCRYPT_MAX_BYTES)
    ELSE password

\* bcrypt.hashpw(password, bcrypt.gensalt()): the salt is carried in the hash
\* and cancels in checkpw; the digest depends on the first 72 bytes only.
Hashpw(password) == [alg |-> "2b", digest |-> Truncate(password)]

\* bcrypt.checkpw(password, hashed): hashes password with the salt of hashed.
Checkpw(password, hashed) == Hashpw(password) = hashed

\* ------------------------------------------------------- users collection
\* find_one({"username": username}): the index of the first match, 0 if none.
FindOne(coll, username) ==
  IF \E i \in 1..Len(coll) : coll[i].username = username
    THEN CHOOSE i \in 1..Len(coll) :
           /\ coll[i].username = username
           /\ \A j \in 1..(i - 1) : coll[j].username # username
    ELSE 0

NoUniqueIndex(coll, username) == FALSE

\* The unique index on username: insert_one raises DuplicateKeyError.
DuplicateKey(coll, username) ==
  \E i \in 1..Len(coll) : coll[i].username = username

UserDataVerbatimRole(username, password, role, t) ==
  [username |-> username,
   password |-> Hashpw(password),
   role |-> role,
   created_at |-> t,
   last_login |-> None]

\* user_data of add_user, created at time t.
UserData(username, password, role, t) ==
  [username |-> username,
   password |-> Hashpw(password),
   role |-> Lower(role),
   created_at |-> t,
   last_login |-> None]

\* Database.add_user: [coll, ret, log].
AddUserOp(coll, up, username, password, role) ==
  IF username = "" \/ password = <<>> \/ role = ""
    THEN [coll |-> coll, ret |-> FALSE, log |-> "missing"]
  ELSE IF HashRaises(password) \/ ~up
    THEN [coll |-> coll, ret |-> FALSE, log |-> "error"]
  ELSE IF DuplicateKey(coll, username)
    THEN [coll |-> coll, ret |-> FALSE, log |-> "exists"]
  ELSE [coll |-> Append(coll, UserData(username, password, role, now)),
        ret |-> TRUE, log |-> "created"]

\* update_one({"_id": ...}, {"$set": {"last_login": utcnow()}})
SetLastLogin(coll, i) == [coll EXCEPT ![i].last_login = Some(now)]

\* Database.verify_user: [coll, ret, log].
VerifyUserOp(coll, up, username, password) ==
  IF ~up
    THEN [coll |-> coll, ret |-> None, log |-> "error"]
  ELSE LET i == FindOne(coll, username) IN
    IF i = 0
      THEN [coll |-> coll, ret |-> None, log |-> "nonexistent"]
    ELSE IF HashRaises(password)
      THEN [coll |-> coll, ret |-> None, log |-> "error"]
    ELSE IF Checkpw(password, coll[i].password)
      THEN [coll |-> SetLastLogin(coll, i),
            ret |-> Some([username |-> coll[i].username,
                          role |-> coll[i].role,
                          last_login |-> coll[i].last_login]),
            log |-> "success"]
    ELSE [coll |-> coll, ret |-> None, log |-> "failed"]

\* Database.get_user: the document without its password, or None.
GetUserOp(coll, up, username) ==
  IF ~up
    THEN None
  ELSE LET i == FindOne(coll, username) IN
    IF i = 0
      THEN None
      ELSE Some([username |-> coll[i].username,
                 role |-> coll[i].role,
                 created_at |-> coll[i].created_at,
                 last_login |-> coll[i].last_login])

\* initialize_users: add_user for each of default_users, from position k on.
\* One pass of the loop: acc is [coll, success_count, errors] so far.
Counted(acc, a) ==
  [coll |-> a.coll,
   success_count |-> acc.success_count + (IF a.ret THEN 1 ELSE 0),
   errors |-> acc.errors + (IF a.ret THEN 0 ELSE 1)]

RECURSIVE InitializeFrom(_, _, _)
InitializeFrom(acc, up, k) ==
  IF k > Len(default_users)
    THEN acc
    ELSE InitializeFrom(
           Counted(acc, AddUserOp(acc.coll, up, default_users[k].username,
                                  default_users[k].password, default_users[k].role)),
           up, k + 1)

InitializeUsersOp(coll, up) ==
  InitializeFrom([coll |-> coll, success_count |-> 0, errors |-> 0], up, 1)

\* The plaintexts of the documents add_user appended to coll, kept in step.
PlainAfter(coll, newColl, password) ==
  IF Len(newColl) > Len(coll) THEN Append(plain, password) ELSE plain

\* ... and of the documents initialize_users appended.
PlainAfterInitialize(coll, newColl) ==
  plain \o [i \in 1..(Len(newColl) - Len(coll)) |->
             LET d == newColl[Len(coll) + i]
                 k == CHOOSE k \in 1..Len(default_users) :
                        default_users[k].username = d.username
             IN default_users[k].password]

\* ----------------------------------------------------------- store actions
\* A call's record: ok is add_user's boolean (for verify_user, whether a user
\* came back), user is verify_user's return, counts is initialize_users' tuple.
Call(op, ok, user, counts, log) ==
  [op |-> op, ok |-> ok, user |-> user, counts |-> counts, log |-> log]

\* up: MongoDB answers this call.
AddUser(username, password, role, up) ==
  /\ Len(users) < MaxDocs
  /\ LET a == AddUserOp(users, up, username, password, role) IN
       /\ users' = a.coll
       /\ plain' = PlainAfter(users, a.coll, password)
       /\ lastCall' = Call("add_user", a.ret, None, None, a.log)
  /\ UNCHANGED <<now, bcryptStrict>>
  /\ UNCHANGED appVars

\* up: MongoDB answers the calls of this run.
InitializeUsers(up) ==
  /\ Len(users) + Len(default_users) <= MaxDocs
  /\ LET r == InitializeUsersOp(users, up) IN
       /\ users' = r.coll
       /\ plain' = PlainAfterInitialize(users, r.coll)
       /\ lastCall' = Call("initialize_users", r.errors = 0, None,
                            <<r.success_count, Len(default_users), r.errors>>,
                            "complete")
  /\ UNCHANGED <<now, bcryptStrict>>
  /\ UNCHANGED appVars

VerifyUser(username, password, up) ==
  /\ LET v == VerifyUserOp(users, up, username, password) IN
       /\ users' = v.coll
       /\ lastCall' = Call("verify_user", v.ret # None, v.ret, None, v.log)
  /\ UNCHANGED <<plain, now, bcryptStrict>>
  /\ UNCHANGED appVars

GetUser(username, up) ==
  /\ LET g == GetUserOp(users, up, username) IN
       lastCall' = Call("get_user", g # None, g, None,
                        IF up THEN "fetched" ELSE "error")
  /\ UNCHANGED <<users, plain, now, bcryptStrict>>
  /\ UNCHANGED appVars

\* The clock advances.
Tick ==
  /\ now < MaxTime
  /\ now' = now + 1
  /\ UNCHANGED <<users, plain, bcryptStrict, lastCall>>
  /\ UNCHANGED appVars

StoreInit ==
  /\ users = <<>>
  /\ plain = <<>>
  /\ now = 0
  /\ bcryptStrict \in BOOLEAN
  /\ lastCall = Call("connect", TRUE, None, None, "connected")

StoreNext ==
  \/ \E a \in AddInputs, up \in BOOLEAN : AddUser(a[1], a[2], a[3], up)
  \/ \E up \in BOOLEAN : InitializeUsers(up)
  \/ \E v \in VerifyInputs, up \in BOOLEAN : VerifyUser(v[1], v[2], up)
  \/ \E u \in GetInputs, up \in BOOLEAN : GetUser(u, up)
  \/ Tick

\* ------------------------------------------------------------ application
\* Two browser sessions: enough for two users at once and for two first
\* loads of one index at once.
Sessions == {1, 2}
Departments == <<"hr", "engineering", "finance", "marketing">>
\* Every role string a stored user can carry into load_vector_index.
AllKeys == Range(Departments) \cup {"test_role"}

\* similarity_top_k
SIMILARITY_TOP_K == 3

\* ./resources/data/<folder>: the files ingestion reads, in glob order.
Resources == [d \in Range(Departments) \cup {"general"} |-> <<"marker.md", "notes.md">>]

\* process_documents(department): the collection it writes, department
\* files first, then the general ones; one chunk per document.
ProcessDocuments(department) ==
  [i \in 1..Len(Resources[department]) |->
     [source |-> Resources[department][i], department |-> department,
      type |-> "department_specific"]]
  \o
  [i \in 1..Len(Resources["general"]) |->
     [source |-> Resources["general"][i], department |-> "general",
      type |-> "general"]]

\* A chat input: the department whose marker document the question matches.
NoPrompt == "<no input>"
Prompts == {"finance"}

\* Similarity of a chunk to the query.
Score(prompt, chunk) ==
  IF chunk.source = "marker.md" /\ chunk.department = prompt THEN 3
  ELSE IF chunk.department = "general" THEN 2
  ELSE 1

RemoveAt(seq, i) == SubSeq(seq, 1, i - 1) \o SubSeq(seq, i + 1, Len(seq))

\* The k best chunks, best first, ties in insertion order.
RECURSIVE TopK(_, _, _)
TopK(chunks, prompt, k) ==
  IF k = 0 \/ chunks = <<>>
    THEN <<>>
    ELSE LET best == CHOOSE i \in 1..Len(chunks) :
                       \A j \in 1..Len(chunks) :
                         \/ Score(prompt, chunks[j]) < Score(prompt, chunks[i])
                         \/ Score(prompt, chunks[j]) = Score(prompt, chunks[i]) /\ j >= i
         IN <<chunks[best]>> \o TopK(RemoveAt(chunks, best), prompt, k - 1)

\* initialize_session_state on an empty st.session_state.
InitialSessionState ==
  [authenticated |-> FALSE, username |-> NoneS, role |-> NoneS, messages |-> <<>>]

\* A turn of the transcript; origin records which session appended it for
\* which user, and is no part of the program's state.
Turn(speaker, kind, text, s, username) ==
  [role |-> speaker, content |-> [kind |-> kind, text |-> text],
   origin |-> [session |-> s, user |-> username]]

\* The text of a turn is a set of pairs: for an answer, the <<department,
\* source>> of each chunk the engine composed it from.
Welcome(s, username) ==
  Turn("assistant", "welcome", {<<"Welcome", username>>}, s, username)

\* What a script run did: kind is login | logout | chat | stopped | form.
Ran(kind, msg, cause, handle, path, llm, results, outcome) ==
  [kind |-> kind, msg |-> msg, cause |-> cause, handle |-> handle, path |-> path,
   llm |-> llm, results |-> results, outcome |-> outcome]

NoRun == Ran("none", "", "", None, "", "", <<>>, "")

\* The environment variables database.py and chat_interface read.
EnvNames == {"MONGO_URI", "DB_NAME", "GROQ_API_KEY"}

ConnectAnyway(e) ==
  [ok |-> TRUE, database |-> IF "DB_NAME" \in e THEN "<DB_NAME>" ELSE "rag_system"]

\* Database.__init__, run by "from database import db" at the top of every
\* script run until it has succeeded once: it raises without MONGO_URI and
\* takes "rag_system" for a missing DB_NAME.
ConnectOp(e) ==
  IF "MONGO_URI" \notin e
    THEN [ok |-> FALSE, database |-> NoneS]
    ELSE [ok |-> TRUE,
          database |-> IF "DB_NAME" \in e THEN "<DB_NAME>" ELSE "rag_system"]

\* A script run that ends in the exception of the import.
ScriptFails(s) ==
  /\ ~ConnectOp(env).ok
  /\ lastRun[s] = NoRun
  /\ lastRun' = [lastRun EXCEPT ![s] =
                   Ran("failed", "MONGO_URI environment variable is not set",
                       "StartupFailure", None, "", "", <<>>, "")]
  /\ UNCHANGED <<storeVars, roleAccess, cohereKey, env, collections, opened, cache,
                 locks, built, sess, pc, pending>>

\* The module level of app.py, which every script run of every session
\* executes before main(): initialize_users() and the ROLE_ACCESS literal.
\* up: MongoDB answers the calls of this run.
ScriptTop(up) ==
  /\ ConnectOp(env).ok
  /\ roleAccess' = ROLE_ACCESS
  /\ users' = InitializeUsersOp(users, up).coll
  /\ plain' = PlainAfterInitialize(users, users')
  /\ UNCHANGED <<now, bcryptStrict, lastCall, cohereKey, env, collections, opened,
                 cache, locks, built, sess, pc, pending, lastRun>>

LoginOpRemembersUsername(coll, up, st, s, username, password) ==
  IF username = "" \/ password = <<>>
    THEN [coll |-> coll, st |-> st, verified |-> FALSE, ret |-> None, log |-> "",
          run |-> Ran("form", "Please enter both username and password", "",
                      None, "", "", <<>>, "")]
    ELSE LET v == VerifyUserOp(coll, up, username, password) IN
      IF v.ret # None
        THEN [coll |-> v.coll,
              st |-> [authenticated |-> TRUE,
                      username |-> v.ret[1].username,
                      role |-> v.ret[1].role,
                      messages |-> <<Welcome(s, v.ret[1].username)>>],
              verified |-> TRUE, ret |-> v.ret, log |-> v.log,
              run |-> Ran("login", "rerun", "Authenticated", None, "", "", <<>>, "")]
        ELSE [coll |-> v.coll, st |-> [st EXCEPT !.username = username],
              verified |-> TRUE, ret |-> v.ret, log |-> v.log,
              run |-> Ran("login", "Invalid username or password",
                          IF v.log = "error" THEN "StoreUnavailable"
                                             ELSE "InvalidCredentials",
                          None, "", "", <<>>, "")]

\* login(username, password) as called by show_login_form: the new session
\* state, the store, and what the form shows.
LoginOp(coll, up, st, s, username, password) ==
  IF username = "" \/ password = <<>>
    THEN [coll |-> coll, st |-> st, verified |-> FALSE, ret |-> None, log |-> "",
          run |-> Ran("form", "Please enter both username and password", "",
                      None, "", "", <<>>, "")]
    ELSE LET v == VerifyUserOp(coll, up, username, password) IN
      IF v.ret # None
        THEN [coll |-> v.coll,
              st |-> [authenticated |-> TRUE,
                      username |-> v.ret[1].username,
                      role |-> v.ret[1].role,
                      messages |-> <<Welcome(s, v.ret[1].username)>>],
              verified |-> TRUE, ret |-> v.ret, log |-> v.log,
              run |-> Ran("login", "rerun", "Authenticated", None, "", "", <<>>, "")]
        ELSE [coll |-> v.coll, st |-> st,
              verified |-> TRUE, ret |-> v.ret, log |-> v.log,
              run |-> Ran("login", "Invalid username or password",
                          IF v.log = "error" THEN "StoreUnavailable"
                                             ELSE "InvalidCredentials",
                          None, "", "", <<>>, "")]

\* main() of a session that is not authenticated, the login form submitted.
\* up: MongoDB answers verify_user.
LoginSubmit(s, username, password, up) ==
  /\ ConnectOp(env).ok
  /\ pc[s] = "idle"
  /\ ~sess[s].authenticated
  /\ LET r == LoginOp(users, up, sess[s], s, username, password) IN
       /\ users' = r.coll
       /\ sess' = [sess EXCEPT ![s] = r.st]
       /\ pc' = [pc EXCEPT ![s] = IF r.st.authenticated THEN "rerun" ELSE "idle"]
       /\ lastRun' = [lastRun EXCEPT ![s] = r.run]
  /\ UNCHANGED <<plain, now, bcryptStrict, lastCall, roleAccess, cohereKey, env>>
  /\ UNCHANGED <<collections, opened, cache, locks, built, pending>>

LoggedOutKeepsTranscript(st) == [InitialSessionState EXCEPT !.messages = st.messages]

\* st.session_state.clear(); initialize_session_state()
LoggedOut(st) == InitialSessionState

\* The Logout button of the sidebar.
Logout(s) ==
  /\ ConnectOp(env).ok
  /\ pc[s] = "idle"
  /\ sess[s].authenticated
  /\ sess' = [sess EXCEPT ![s] = LoggedOut(sess[s])]
  /\ lastRun' = [lastRun EXCEPT ![s] =
                   Ran("logout", "Successfully logged out", "", None, "", "", <<>>, "")]
  /\ UNCHANGED <<storeVars, roleAccess, cohereKey, env>>
  /\ UNCHANGED <<collections, opened, cache, locks, built, pc, pending>>

CacheKeyIgnoresRole(role) == "engineering"

\* st.cache_resource keys an entry by the function's arguments.
CacheKey(role) == role

LockNeverHeld(key) == TRUE

\* The compute lock of a key can be taken.
LockFree(key) == key \notin locks

LoadableAlways(key) == TRUE

\* The body of load_vector_index returns an index: the API key is set and
\* get_collection("documents") finds the collection.
Loadable(key) == cohereKey /\ key \in collections

QueriesAsked(messages) ==
  Cardinality({i \in 1..Len(messages) : messages[i].role = "user"})

AnswerOnlyOnSuccess(messages, s, username, outcome, results) ==
  IF outcome = "ok"
    THEN Append(messages,
                Turn("assistant", "answer",
                     {<<c.department, c.source>> : c \in Range(results)}, s, username))
    ELSE messages

\* The assistant's turn: str(response), or the error message of the except
\* branch.
AssistantTurn(messages, s, username, outcome, results) ==
  Append(messages,
         IF outcome = "ok"
           THEN Turn("assistant", "answer",
                     {<<c.department, c.source>> : c \in Range(results)}, s, username)
           ELSE Turn("assistant", "error", {<<"Error generating response", "">>},
                     s, username))

\* st.warning of the except branch.
FallbackWarning == "Falling back to default LLM settings. Some features may be limited."

\* chat_interface from the query engine on: the session's new messages and
\* the record of the run.  llmOk: Groq(...) and as_query_engine(llm=...) did
\* not raise; outcome: what query_engine.query(prompt) did, or "unbuilt"
\* when the as_query_engine of the except branch raised in its turn and
\* ended the run.
ChatOp(st, s, handle, path, prompt, llmOk, outcome) ==
  LET llm == IF llmOk THEN "groq" ELSE "default"
      msg == IF llmOk THEN "" ELSE FallbackWarning
      results == IF prompt # NoPrompt /\ outcome = "ok"
                   THEN TopK(ProcessDocuments(handle.partition), prompt,
                             SIMILARITY_TOP_K)
                   ELSE <<>>
  IN IF outcome = "unbuilt"
       THEN [st |-> st,
             run |-> Ran("crashed", msg, "GenerationBackendError", Some(handle), path,
                         "", <<>>, outcome)]
     ELSE IF prompt = NoPrompt
       THEN [st |-> st,
             run |-> Ran("chat", msg, "", Some(handle), path, llm, <<>>, "")]
       ELSE [st |-> [st EXCEPT !.messages =
                       AssistantTurn(
                         Append(st.messages,
                                Turn("user", "prompt", {<<"prompt", prompt>>}, s,
                                     st.username)),
                         s, st.username, outcome, results)],
             run |-> Ran("chat", msg, "", Some(handle), path, llm, results, outcome)]

\* query_engine.query(prompt) returned, or raised in retrieval or generation;
\* or no query engine was built.  Without an llm argument as_query_engine
\* takes Settings.llm, which app.py never sets: LlamaIndex then loads its
\* default, the OpenAI model, and raises when OPENAI_API_KEY is not set.
Outcomes == {"ok", "error", "unbuilt"}

\* The run of session s ends in chat_interface with the index in hand.
Finish(s, handle, path, prompt, llmOk, outcome) ==
  LET r == ChatOp(sess[s], s, handle, path, prompt, llmOk, outcome) IN
    \* a Groq client built with api_key=None cannot generate
    /\ (prompt # NoPrompt /\ llmOk /\ "GROQ_API_KEY" \notin env) => outcome = "error"
    /\ outcome = "unbuilt" => ~llmOk
    /\ sess' = [sess EXCEPT ![s] = r.st]
    /\ lastRun' = [lastRun EXCEPT ![s] = r.run]
    /\ pc' = [pc EXCEPT ![s] = "idle"]
    /\ pending' = [pending EXCEPT ![s] = NoPrompt]

\* main() of an authenticated session, up to the cache lookup of
\* load_vector_index(st.session_state.role); on a hit, to its end.
ChatStart(s, prompt, llmOk, outcome) ==
  /\ ConnectOp(env).ok
  /\ pc[s] \in {"idle", "rerun"}
  /\ sess[s].authenticated
  /\ pc[s] = "rerun" => prompt = NoPrompt
  /\ prompt # NoPrompt => QueriesAsked(sess[s].messages) < MaxQueries
  /\ prompt = NoPrompt => outcome # "error"
  /\ LET key == CacheKey(sess[s].role) IN
       IF cache[key] # None
         THEN Finish(s, cache[key][1], "hit", prompt, llmOk, outcome)
         ELSE /\ llmOk /\ outcome = "ok"
              /\ pc' = [pc EXCEPT ![s] = "miss"]
              /\ pending' = [pending EXCEPT ![s] = prompt]
              /\ lastRun' = [lastRun EXCEPT ![s] = NoRun]
              /\ UNCHANGED sess
  /\ UNCHANGED <<storeVars, roleAccess, cohereKey, env>>
  /\ UNCHANGED <<collections, opened, cache, locks, built>>

\* The miss takes the key's compute lock and reads the cache again.
AcquireLock(s, llmOk, outcome) ==
  /\ pc[s] = "miss"
  /\ pending[s] = NoPrompt => outcome # "error"
  /\ LET key == CacheKey(sess[s].role) IN
       /\ LockFree(key)
       /\ IF cache[key] # None
            THEN /\ Finish(s, cache[key][1], "recheck", pending[s], llmOk, outcome)
                 /\ UNCHANGED locks
            ELSE /\ llmOk /\ outcome = "ok"
                 /\ pc' = [pc EXCEPT ![s] = "build"]
                 /\ locks' = locks \cup {key}
                 /\ UNCHANGED <<sess, lastRun, pending>>
  /\ UNCHANGED <<storeVars, roleAccess, cohereKey, env, collections, opened, cache, built>>

\* The lock's holder runs the body of load_vector_index, stores what it
\* returns and releases the lock; st.stop() ends the run when it raised.
Build(s, llmOk, outcome) ==
  /\ pc[s] = "build"
  /\ pending[s] = NoPrompt => outcome # "error"
  /\ LET key == CacheKey(sess[s].role)
         handle == [partition |-> sess[s].role, construction |-> built[key] + 1]
     IN /\ locks' = locks \ {key}
        /\ opened' = IF cohereKey THEN opened \cup {sess[s].role} ELSE opened
        /\ IF Loadable(sess[s].role)
             THEN /\ built' = [built EXCEPT ![key] = @ + 1]
                  /\ cache' = [cache EXCEPT ![key] = Some(handle)]
                  /\ Finish(s, handle, "built", pending[s], llmOk, outcome)
             ELSE /\ llmOk /\ outcome = "ok"
                  /\ pc' = [pc EXCEPT ![s] = "idle"]
                  /\ pending' = [pending EXCEPT ![s] = NoPrompt]
                  /\ lastRun' = [lastRun EXCEPT ![s] =
                                   Ran("stopped", "Error loading vector index",
                                       "IndexUnavailable", None, "", "", <<>>, "")]
                  /\ UNCHANGED <<sess, cache, built>>
  /\ UNCHANGED <<storeVars, roleAccess, cohereKey, env, collections>>

\* ingest.py's main(): process_documents for each department.
IngestMain ==
  /\ collections' = collections \cup Range(Departments)
  /\ UNCHANGED <<storeVars, roleAccess, cohereKey, env, opened, cache, locks, built,
                 sess, pc, pending, lastRun>>

\* <<username, password>> typed into the login form.
LoginInputs ==
  { <<"Tony", PwTony>>, <<"Sam", PwSam>>, <<TestUser, PwTony>>,
    <<"Tony", PwWrong>>, <<"nobody", PwTony>>, <<"", PwTony>> }

\* A fresh application process: nothing cached, every session new.
AppState ==
  /\ roleAccess = ROLE_ACCESS
  /\ collections = {}
  /\ opened = {}
  /\ cache = [k \in AllKeys |-> None]
  /\ locks = {}
  /\ built = [k \in AllKeys |-> 0]
  /\ sess = [s \in Sessions |-> InitialSessionState]
  /\ pc = [s \in Sessions |-> "idle"]
  /\ pending = [s \in Sessions |-> NoPrompt]
  /\ lastRun = [s \in Sessions |-> NoRun]

\* ... in an environment that sets everything but, perhaps, COHERE_API_KEY.
AppFresh ==
  /\ cohereKey \in BOOLEAN
  /\ env = EnvNames
  /\ AppState

\* The store after initialize_users and the integration test's add_user of
\* a user whose role is no department.
Init ==
  /\ now = 0
  /\ bcryptStrict = FALSE
  /\ users = [k \in 1..Len(default_users) |->
                UserData(default_users[k].username, default_users[k].password,
                         default_users[k].role, 0)]
             \o <<UserData(TestUser, PwTony, "test_role", 0)>>
  /\ plain = <<PwTony, PwBruce, PwSam, PwPeter, PwSid, PwNatasha, PwTony>>
  /\ lastCall = Call("add_user", TRUE, None, None, "created")
  /\ AppFresh

Next ==
  \/ \E s \in Sessions, i \in LoginInputs, up \in BOOLEAN :
        LoginSubmit(s, i[1], i[2], up)
  \/ \E up \in BOOLEAN : ScriptTop(up)
  \/ \E s \in Sessions : Logout(s)
  \/ \E s \in Sessions, p \in Prompts \cup {NoPrompt}, llmOk \in BOOLEAN,
        outcome \in Outcomes : ChatStart(s, p, llmOk, outcome)
  \/ \E s \in Sessions, llmOk \in BOOLEAN, outcome \in Outcomes :
        AcquireLock(s, llmOk, outcome)
  \/ \E s \in Sessions, llmOk \in BOOLEAN, outcome \in Outcomes :
        Build(s, llmOk, outcome)
  \/ IngestMain

Spec == Init /\ [][Next]_vars

InitStore ==
  /\ StoreInit
  /\ AppFresh

SpecStore == InitStore /\ [][StoreNext]_vars

\* The application started in an environment that lacks exactly one of the
\* four configuration values.
InitStartup ==
  /\ now = 0
  /\ bcryptStrict = FALSE
  /\ users = [k \in 1..Len(default_users) |->
                UserData(default_users[k].username, default_users[k].password,
                         default_users[k].role, 0)]
             \o <<UserData(TestUser, PwTony, "test_role", 0)>>
  /\ plain = <<PwTony, PwBruce, PwSam, PwPeter, PwSid, PwNatasha, PwTony>>
  /\ lastCall = Call("add_user", TRUE, None, None, "created")
  /\ \E missing \in EnvNames \cup {"COHERE_API_KEY"} :
       /\ cohereKey = (missing # "COHERE_API_KEY")
       /\ env = EnvNames \ {missing}
  /\ AppState

NextStartup ==
  \/ Next
  \/ \E s \in Sessions : ScriptFails(s)

SpecStartup == InitStartup /\ [][NextStartup]_vars

\* ------------------------------------------------- claims on the store
\* The position of username's document, 0 when it has none.
Provisioned(username) == FindOne(users, username)

VerifySucceeded == lastCall'.op = "verify_user" /\ lastCall'.user # None

\* C3 as stated, for the calls the store answers: for every provisioned
\* user, verify(username, password) returns a user record exactly when the
\* password equals the one given at provisioning; last_login is updated when
\* it succeeds and nothing changes when it fails.
C3_VerifyExactlyProvisioned ==
  [][\A v \in VerifyInputs :
       (VerifyUser(v[1], v[2], TRUE) /\ Provisioned(v[1]) # 0) =>
         LET i == Provisioned(v[1]) IN
           /\ VerifySucceeded <=> (v[2] = plain[i])
           /\ VerifySucceeded => users'[i].last_login = Some(now)
           /\ ~VerifySucceeded => users' = users]_vars

C4_Unique ==
  \A i, j \in 1..Len(users) : users[i].username = users[j].username => i = j

C4_Step ==
  /\ Len(users') >= Len(users)
  /\ \A i \in 1..Len(users) :
       /\ users'[i].username = users[i].username
       /\ users'[i].password = users[i].password
       /\ users'[i].role = users[i].role
       /\ users'[i].created_at = users[i].created_at
  /\ \A a \in AddInputs, up \in BOOLEAN :
       (AddUser(a[1], a[2], a[3], up) /\ Provisioned(a[1]) # 0) =>
         /\ lastCall'.ok = FALSE
         /\ users' = users
  /\ \A up \in BOOLEAN : InitializeUsers(up) =>
       /\ lastCall'.counts[3] >=
            Cardinality({k \in 1..Len(default_users) :
                           Provisioned(default_users[k].username) # 0})
       /\ \A i \in (Len(users) + 1)..Len(users') :
            Provisioned(users'[i].username) = 0

\* C4: provisioning an existing username (add_user, or initialize_users) is
\* refused and overwrites nothing: the store never holds two records of one
\* username, and the username, password hash, role and created_at of a
\* record never change once written.
C4_NoOverwrite == []C4_Unique /\ [][C4_Step]_vars

\* add_user was just refused for a username the store already holds.
C4_Witness ==
  /\ lastCall.op = "add_user"
  /\ lastCall.log = "exists"
  /\ lastCall.ok = FALSE
  /\ Len(users) >= 1

\* -------------------------------------------- claims on the application
ChatRan(s) == lastRun[s].kind = "chat"

\* The <<department, source>> pairs of every answer in a transcript.
Answered(messages) ==
  UNION {messages[i].content.text :
           i \in {j \in 1..Len(messages) : messages[j].content.kind = "answer"}}

\* C1: role isolation.  The index a session's query runs against is the one
\* loaded for the partition named after the session's role, and every chunk
\* retrieved for it, in its latest run or in any answer of its transcript,
\* comes from that partition, whose chunks are labelled with the role or
\* "general".
C1_RoleIsolation ==
  \A s \in Sessions :
    /\ ChatRan(s) =>
         /\ sess[s].authenticated
         /\ lastRun[s].handle[1].partition = sess[s].role
         /\ \A c \in Range(lastRun[s].results) :
              /\ c.department \in {sess[s].role, "general"}
              /\ c \in Range(ProcessDocuments(sess[s].role))
    /\ \A x \in Answered(sess[s].messages) : x[1] \in {sess[s].role, "general"}

\* An engineering session and a finance session have both had the question
\* matching the finance marker answered.
C1_Witness ==
  \E s1, s2 \in Sessions :
    /\ sess[s1].role = "engineering" /\ sess[s2].role = "finance"
    /\ ChatRan(s1) /\ lastRun[s1].results # <<>>
    /\ ChatRan(s2) /\ lastRun[s2].results # <<>>
    /\ \E c \in Range(lastRun[s2].results) :
         c.department = "finance" /\ c.source = "marker.md"

\* C2: construct-once.  No key's index is constructed twice, whatever the
\* interleaving of the sessions' loads, and the handle every run got is the
\* one the cache holds for its partition.
C2_ConstructOnce ==
  /\ \A k \in AllKeys :
       /\ built[k] <= 1
       /\ cache[k] # None => built[k] = 1 /\ cache[k][1].construction = 1
  /\ \A s \in Sessions :
       ChatRan(s) => lastRun[s].handle = cache[lastRun[s].handle[1].partition]

\* Two sessions missed the cache for one partition; one constructed the
\* index, the other waited for the lock and was handed the same handle.
C2_Witness ==
  \E s1, s2 \in Sessions :
    /\ s1 # s2
    /\ ChatRan(s1) /\ lastRun[s1].path = "built"
    /\ ChatRan(s2) /\ lastRun[s2].path = "recheck"
    /\ lastRun[s1].handle = lastRun[s2].handle
    /\ built[lastRun[s1].handle[1].partition] = 1

\* C5 as stated: what a login attempt shows when the store cannot be reached
\* differs from what it shows when the username or password is wrong.
C5_Distinguishable ==
  \A s1, s2 \in Sessions :
    ( /\ lastRun[s1].kind = "login" /\ lastRun[s1].cause = "StoreUnavailable"
      /\ lastRun[s2].kind = "login" /\ lastRun[s2].cause = "InvalidCredentials" )
    => lastRun[s1].msg # lastRun[s2].msg

\* C6 as stated: for a user whose stored role is not in the table, no index
\* is located or loaded: load_vector_index is not entered and no persist
\* directory is opened for the role.
C6_UnknownRoleRejected ==
  /\ opened \subseteq DOMAIN roleAccess
  /\ \A s \in Sessions :
       (sess[s].authenticated /\ sess[s].role \notin DOMAIN roleAccess) =>
         /\ pc[s] \notin {"miss", "build"}
         /\ lastRun[s].kind \notin {"chat", "stopped"}

C7_NoHandle ==
  \A k \in AllKeys : cache[k] # None => (cohereKey /\ k \in collections)

C7_Stops ==
  \A s \in Sessions :
    ( /\ pc[s] = "build"
      /\ pc'[s] # "build"
      /\ ~(cohereKey /\ sess[s].role \in collections) )
    => /\ cache' = cache
       /\ built' = built
       /\ sess' = sess
       /\ pc'[s] = "idle"
       /\ lastRun'[s].kind = "stopped"
       /\ lastRun'[s].handle = None
       /\ lastRun'[s].results = <<>>

\* C7: a load for a partition without a persisted collection, or with the
\* embedding API key missing, returns no handle and caches none; the run
\* stops there, its chat input unanswered and the transcript untouched.
C7_IndexUnavailable == []C7_NoHandle /\ [][C7_Stops]_vars

\* A session's load has failed and stopped its run; nothing is cached for
\* its role.
C7_Witness ==
  \E s \in Sessions :
    /\ lastRun[s].kind = "stopped"
    /\ sess[s].authenticated
    /\ cache[sess[s].role] = None

\* The failing query of session s, asked with prompt p, runs to its end.
QueryFails(s, p, llmOk) ==
  \/ ChatStart(s, p, llmOk, "error")
  \/ pending[s] = p /\ AcquireLock(s, llmOk, "error")
  \/ pending[s] = p /\ Build(s, llmOk, "error")

\* C8: a query that fails in retrieval or generation leaves the session
\* authenticated with the same username and role, adds to the transcript
\* the user's turn and one assistant turn holding the error message, and
\* leaves the session ready for its next run.
C8_FailureKeepsSession ==
  [][\A s \in Sessions, p \in Prompts, llmOk \in BOOLEAN :
       QueryFails(s, p, llmOk) =>
         /\ sess'[s].authenticated
         /\ sess'[s].username = sess[s].username
         /\ sess'[s].role = sess[s].role
         /\ Len(sess'[s].messages) = Len(sess[s].messages) + 2
         /\ SubSeq(sess'[s].messages, 1, Len(sess[s].messages)) = sess[s].messages
         /\ LET n == Len(sess'[s].messages) IN
              /\ sess'[s].messages[n - 1].role = "user"
              /\ sess'[s].messages[n - 1].content.text = {<<"prompt", p>>}
              /\ sess'[s].messages[n].role = "assistant"
              /\ sess'[s].messages[n].content.kind = "error"
         /\ pc'[s] = "idle"
         /\ \A t \in Sessions \ {s} : sess'[t] = sess[t]]_vars

\* A session's query failed and its next query was answered.
C8_Witness ==
  \E s \in Sessions :
    /\ sess[s].authenticated
    /\ \E i, j \in 1..Len(sess[s].messages) :
         /\ i < j
         /\ sess[s].messages[i].content.kind = "error"
         /\ sess[s].messages[j].content.kind = "answer"

C9_Owned ==
  \A s \in Sessions :
    /\ ~sess[s].authenticated => sess[s].messages = <<>>
    /\ sess[s].authenticated =>
         /\ Len(sess[s].messages) >= 1
         /\ sess[s].messages[1] = Welcome(s, sess[s].username)
    /\ \A i \in 1..Len(sess[s].messages) :
         sess[s].messages[i].origin = [session |-> s, user |-> sess[s].username]

C9_Cleared ==
  \A s \in Sessions :
    /\ (~sess[s].authenticated /\ sess'[s].authenticated) =>
         sess'[s].messages = <<Welcome(s, sess'[s].username)>>
    /\ (sess[s].authenticated /\ ~sess'[s].authenticated) =>
         sess'[s].messages = <<>>
    /\ sess'[s].messages # sess[s].messages =>
         \A t \in Sessions \ {s} : sess'[t].messages = sess[t].messages

\* C9: the transcript belongs to one session and one login.  After logout
\* it is empty; after a login it holds the welcome of that login and
\* nothing older; every turn in it was appended by its own session for its
\* current user, and a step that changes one transcript changes no other.
C9_TranscriptOwned == []C9_Owned /\ [][C9_Cleared]_vars

\* A session has logged out, its transcript empty, while the other session
\* holds a transcript with a question in it.
C9_Witness ==
  \E s, t \in Sessions :
    /\ s # t
    /\ lastRun[s].kind = "logout"
    /\ sess[s].messages = <<>>
    /\ sess[t].authenticated
    /\ Len(sess[t].messages) >= 3

C10_Table ==
  /\ DOMAIN roleAccess = {"hr", "engineering", "finance", "marketing"}
  /\ \A R \in {"hr", "engineering", "finance", "marketing"} :
       Range(roleAccess[R]) = {R, "general"}

\* C10: for every role R of hr, engineering, finance and marketing the
\* table gives exactly {R, "general"}, and no step changes the table.
C10_TableFixed == []C10_Table /\ [][roleAccess' = roleAccess]_vars

\* The table after logins and an answered query.
C10_Witness ==
  /\ C10_Table
  /\ \E s \in Sessions : ChatRan(s) /\ lastRun[s].outcome = "ok"

\* ------------------------------------------- claims on the round trip
NonEmpty(a) == a[1] # "" /\ a[2] # <<>> /\ a[3] # ""

\* C11 as stated, for the calls the store answers: for every non-empty
\* username not yet in the store, non-empty password and non-empty role r,
\* add_user succeeds and a following verify_user with that password, and
\* get_user, return a record with that username and the role r.
C11_RoundTrip ==
  [][\A a \in AddInputs :
       (AddUser(a[1], a[2], a[3], TRUE) /\ NonEmpty(a) /\ Provisioned(a[1]) = 0) =>
         /\ lastCall'.ok
         /\ LET v == VerifyUserOp(users', TRUE, a[1], a[2]).ret
                g == GetUserOp(users', TRUE, a[1])
            IN /\ v # None /\ v[1].username = a[1] /\ v[1].role = a[3]
               /\ g # None /\ g[1].username = a[1] /\ g[1].role = a[3]]_vars

\* add_user of a new username with non-empty fields succeeds exactly when
\* the store answers and bcrypt takes the password; verify_user and get_user
\* then return the username and the role in lower case.
C11_Step ==
  \A a \in AddInputs, up \in BOOLEAN :
    (AddUser(a[1], a[2], a[3], up) /\ NonEmpty(a) /\ Provisioned(a[1]) = 0) =>
      /\ lastCall'.ok <=> (up /\ ~HashRaises(a[2]))
      /\ lastCall'.ok =>
           LET v == VerifyUserOp(users', TRUE, a[1], a[2]).ret
               g == GetUserOp(users', TRUE, a[1])
           IN /\ v # None /\ v[1].username = a[1] /\ v[1].role = Lower(a[3])
              /\ g # None /\ g[1].username = a[1] /\ g[1].role = Lower(a[3])

\* Whatever was called since, a record answers its provisioned password.
C11_Kept ==
  \A i \in 1..Len(users) :
    LET v == VerifyUserOp(users, TRUE, users[i].username, plain[i]).ret
        g == GetUserOp(users, TRUE, users[i].username)
    IN /\ v # None /\ v[1].username = users[i].username /\ v[1].role = users[i].role
       /\ g # None /\ g[1].username = users[i].username /\ g[1].role = users[i].role

\* C11 amended: for every non-empty username not yet in the store, non-empty
\* password and non-empty role r, add_user succeeds whenever the store
\* answers and bcrypt accepts the password, and from then on verify_user with
\* that password, and get_user, return (when the store answers) a record
\* with that username and the role r in lower case.
C11_RoundTripLower == []C11_Kept /\ [][C11_Step]_vars

\* A user provisioned with role "Finance" has been verified and came back
\* with role "finance".
C11_Witness ==
  /\ lastCall.op = "verify_user"
  /\ lastCall.user # None
  /\ lastCall.user[1].role = "finance"
  /\ lastCall.user[1].username = TestUser
  /\ \E i \in 1..Len(users) : users[i].username = TestUser /\ users[i].role = "finance"

\* -------------------------------------------------- claims on startup
\* No login attempt, logout or chat run of session s has been served.
Unserved(s) ==
  /\ lastRun[s].kind \in {"none", "failed"}
  /\ sess[s] = InitialSessionState
  /\ pc[s] = "idle"

\* C12 as stated: with any one of COHERE_API_KEY, GROQ_API_KEY, MONGO_URI and
\* DB_NAME missing, the process halts before it serves any login or query.
C12_StartupFatal ==
  (env # EnvNames \/ ~cohereKey) => \A s \in Sessions : Unserved(s)

\* C12 amended: a missing MONGO_URI is fatal at startup, every script run
\* ends in the import's exception before a login or query is served; a
\* missing COHERE_API_KEY ends every chat run at the index load, so that no
\* index is cached and no query is answered, though logins are served.
C12_StartupAmended ==
  /\ "MONGO_URI" \notin env =>
       /\ \A s \in Sessions : Unserved(s)
       /\ opened = {}
  /\ ~cohereKey =>
       /\ \A k \in AllKeys : cache[k] = None
       /\ \A s \in Sessions :
            /\ lastRun[s].kind # "chat"
            /\ \A i \in 1..Len(sess[s].messages) : sess[s].messages[i].role # "user"

\* The application was started without MONGO_URI and the script run of
\* every session has failed.
C12_Witness ==
  /\ "MONGO_URI" \notin env
  /\ \A s \in Sessions : lastRun[s].kind = "failed"

\* ------------------------------------------------ claims on the fallback
\* A chat run of session s with chat input p gets past load_vector_index
\* after Groq's initialisation raised.
FallbackRun(s, p, outcome) ==
  /\ \/ ChatStart(s, p, FALSE, outcome)
     \/ pending[s] = p /\ AcquireLock(s, FALSE, outcome)
     \/ pending[s] = p /\ Build(s, FALSE, outcome)
  /\ lastRun'[s].kind \in {"chat", "crashed"}

\* C13 as stated: when the initialisation of the Groq backend fails the run
\* does not crash: the warning is shown, a query engine with the default
\* generation configuration is built over the index of the session's role
\* with top-k 3, and a submitted query is processed against that index.
C13_FallbackServes ==
  [][\A s \in Sessions, p \in Prompts \cup {NoPrompt}, outcome \in Outcomes :
       FallbackRun(s, p, outcome) =>
         /\ lastRun'[s].kind = "chat"
         /\ lastRun'[s].msg = FallbackWarning
         /\ lastRun'[s].llm = "default"
         /\ lastRun'[s].handle[1].partition = sess[s].role
         /\ p # NoPrompt =>
              /\ Len(sess'[s].messages) = Len(sess[s].messages) + 2
              /\ lastRun'[s].outcome = "ok" =>
                   lastRun'[s].results =
                     TopK(ProcessDocuments(sess[s].role), p, SIMILARITY_TOP_K)]_vars

\* ------------------------------------------- claims on the session state
C14_State ==
  \A s \in Sessions :
    /\ sess[s].authenticated <=> (sess[s].username # NoneS /\ sess[s].role # NoneS)
    /\ sess[s].authenticated =>
         /\ Provisioned(sess[s].username) # 0
         /\ sess[s].role = users[Provisioned(sess[s].username)].role
    /\ pc[s] \in {"miss", "build", "rerun"} => sess[s].authenticated
    /\ lastRun[s].kind \in {"chat", "stopped", "crashed"} => sess[s].authenticated

C14_Login ==
  \A s \in Sessions, i \in LoginInputs, up \in BOOLEAN :
    LoginSubmit(s, i[1], i[2], up) =>
      IF lastRun'[s].cause = "Authenticated"
        THEN /\ sess'[s].authenticated
             /\ sess'[s].username = i[1]
             /\ sess'[s].role = users[Provisioned(i[1])].role
        ELSE /\ sess'[s] = sess[s]
             /\ users' = users

C14_Reached ==
  \A s \in Sessions :
    (lastRun'[s] # lastRun[s] /\ lastRun'[s].kind \in {"chat", "stopped", "crashed"})
      => sess[s].authenticated /\ sess'[s].authenticated

\* C14: a session is authenticated exactly when its username and role are
\* both set; its role is the one stored for its username when verify_user
\* succeeded; a login attempt that fails (empty field, unknown user, wrong
\* password, store error) changes nothing of the session or the store; and
\* the index load and the query are reached by authenticated sessions only.
C14_SessionInvariant == []C14_State /\ [][C14_Login /\ C14_Reached]_vars

\* One session's login was refused and it holds nothing, while the other
\* is authenticated with its stored role and has had a chat run.
C14_Witness ==
  \E s, t \in Sessions :
    /\ lastRun[s].kind = "login"
    /\ lastRun[s].cause = "InvalidCredentials"
    /\ ~sess[s].authenticated
    /\ sess[s].username = NoneS
    /\ sess[t].authenticated
    /\ sess[t].username = "Tony"
    /\ sess[t].role = "engineering"
    /\ lastRun[t].kind = "chat"
====
